---------------------------- MODULE Spec2Model ----------------------------
(***************************************************************************)
(* Korean nonce-word stimuli: the combinatorial generator and the syllable *)
(* composer of generate.py / kor.py, the lexical filter of generate.main   *)
(* and the stratified sampler of stratify.py.                              *)
(*                                                                         *)
(* Python strings are sequences of code points.  A code point is written   *)
(* as a one-character TLA+ string; the three non-ASCII code points of the  *)
(* inventory are written in ASCII:                                         *)
(*     "h" for U+02B0 (aspiration),  "^" for U+031A (no audible release),  *)
(*     "N" for U+014B (eng).                                               *)
(***************************************************************************)
EXTENDS Integers, Sequences, FiniteSets, TLC

---------------------------------------------------------------------------
(* Python string and list primitives                                       *)

\* str.startswith
StartsWith(s, prefix) ==
    /\ Len(prefix) <= Len(s)
    /\ SubSeq(s, 1, Len(prefix)) = prefix

\* s[0] as a one-character string
First(s) == <<s[1]>>

\* s[1:]
Rest(s) == SubSeq(s, 2, Len(s))

\* s[:-1]
ButLast(s) == SubSeq(s, 1, Len(s) - 1)

\* s[-1] as a one-character string
Last(s) == <<s[Len(s)]>>

RECURSIVE FlattenFrom(_, _)
FlattenFrom(ss, k) ==
    IF k > Len(ss) THEN <<>> ELSE ss[k] \o FlattenFrom(ss, k + 1)

\* the concatenation of a sequence of sequences (a nested for loop's yields)
Flatten(ss) == FlattenFrom(ss, 1)

\* itertools.permutations(xs, 2): ordered pairs of distinct positions, in
\* lexicographic order of position
Permutations2(xs) ==
    Flatten([i \in 1..Len(xs) |->
        [k \in 1..(Len(xs) - 1) |-> <<xs[i], xs[IF k < i THEN k ELSE k + 1]>>]])

\* itertools.product(xs, ys)
Product(xs, ys) ==
    Flatten([i \in 1..Len(xs) |-> [j \in 1..Len(ys) |-> <<xs[i], ys[j]>>]])

\* the Python value None (no string of the program equals it)
None == <<"<None>">>

---------------------------------------------------------------------------
(* Phoneme inventories                                                     *)

PLAIN_STOP_ONSETS == << <<"p">>, <<"t">>, <<"c">>, <<"k">> >>
ASPIRATED_STOP_ONSETS ==
    << <<"p", "h">>, <<"t", "h">>, <<"c", "h">>, <<"k", "h">> >>
STOP_ONSETS == PLAIN_STOP_ONSETS \o ASPIRATED_STOP_ONSETS
NASAL_ONSETS == << <<"m">>, <<"n">> >>
SIMPLE_ONSETS == STOP_ONSETS \o << <<"s">> >> \o NASAL_ONSETS

FRONT_VOWELS == << <<"i">>, <<"a">> >>
BACK_VOWELS == << <<"o">>, <<"u">> >>
VOWELS == FRONT_VOWELS \o BACK_VOWELS

NASAL_CODAS == << <<"m">>, <<"n">>, <<"N">> >>
STOP_CODAS == << <<"p", "^">>, <<"t", "^">>, <<"k", "^">> >>
CODAS == NASAL_CODAS \o STOP_CODAS

\* shape tags
CV == <<"C", "V">>
CVC == <<"C", "V", "C">>
CwV == <<"C", "w", "V">>
CwVC == <<"C", "w", "V", "C">>
NCV == <<"N", "C", "V">>
NCVC == <<"N", "C", "V", "C">>
CNV == <<"C", "N", "V">>
CNVC == <<"C", "N", "V", "C">>
CVCVC == <<"C", "V", "C", "V", "C">>
CwVCVC == <<"C", "w", "V", "C", "V", "C">>
NCVCVC == <<"N", "C", "V", "C", "V", "C">>
CNVCVC == <<"C", "N", "V", "C", "V", "C">>

\* dataclass Monosyllable(onset, nucleus, coda=None, shape=None)
Monosyllable(onset, nucleus, coda, shape) ==
    [onset |-> onset, nucleus |-> nucleus, coda |-> coda, shape |-> shape]

\* dataclass Bisyllable(syl1, syl2, shape)
Bisyllable(syl1, syl2, shape) ==
    [syl1 |-> syl1, syl2 |-> syl2, shape |-> shape]

\* a local name that no assignment has bound yet
Unbound == [unbound |-> TRUE]

---------------------------------------------------------------------------
(* SyllableComposer                                                        *)

\* glyphs are written by their Unicode jamo names
HANGUL_ONSET ==
    (<<"p">> :> "PIEUP") @@ (<<"t">> :> "TIKEUT") @@ (<<"c">> :> "CIEUC") @@
    (<<"k">> :> "KIYEOK") @@ (<<"p", "h">> :> "PHIEUPH") @@
    (<<"t", "h">> :> "THIEUTH") @@ (<<"c", "h">> :> "CHIEUCH") @@
    (<<"k", "h">> :> "KHIEUKH") @@ (<<"s">> :> "SIOS") @@
    (<<"m">> :> "MIEUM") @@ (<<"n">> :> "NIEUN")
HANGUL_NUCLEUS ==
    (<<"a">> :> "A") @@ (<<"o">> :> "O") @@ (<<"u">> :> "U") @@
    (<<"i">> :> "I") @@ (<<"w", "a">> :> "WA") @@ (<<"w", "i">> :> "WI")
HANGUL_CODA ==
    (<<"p", "^">> :> "PIEUP") @@ (<<"t", "^">> :> "TIKEUT") @@
    (<<"k", "^">> :> "KIYEOK") @@ (<<"m">> :> "MIEUM") @@
    (<<"n">> :> "NIEUN") @@ (<<"N">> :> "IEUNG")

\* the outcome of evaluating an expression: a value, or an exception raised
Value(v) == [exc |-> "none", val |-> v]
Raise(e) == [exc |-> e, val |-> <<>>]
Raised(r) == r.exc # "none"

\* `self.shape in ["CV", "CVC", "CwV", "CwVC"]`
AtomicOnsetShapes == {CV, CVC, CwV, CwVC}

\* the eight shape tags of the data model
KnownShapes == {CV, CVC, CwV, CwVC, NCV, NCVC, CNV, CNVC}

\* the first three branches of jamo_tuple: the spelled onset
SpelledOnset(syl) ==
    IF syl.shape \in AtomicOnsetShapes
    THEN IF syl.onset \in DOMAIN HANGUL_ONSET
         THEN Value(<<HANGUL_ONSET[syl.onset]>>)
         ELSE Raise("KeyError")
    ELSE IF syl.shape = None
    THEN Raise("AttributeError")
    ELSE IF StartsWith(syl.shape, NCV)
    THEN IF syl.onset = <<>> THEN Raise("IndexError")
         ELSE IF First(syl.onset) \in DOMAIN HANGUL_ONSET
                 /\ Rest(syl.onset) \in DOMAIN HANGUL_ONSET
         THEN Value(<<HANGUL_ONSET[First(syl.onset)],
                      HANGUL_ONSET[Rest(syl.onset)]>>)
         ELSE Raise("KeyError")
    ELSE IF StartsWith(syl.shape, CNV)
    THEN IF syl.onset = <<>> THEN Raise("IndexError")
         ELSE IF ButLast(syl.onset) \in DOMAIN HANGUL_ONSET
                 /\ Last(syl.onset) \in DOMAIN HANGUL_ONSET
         THEN Value(<<HANGUL_ONSET[ButLast(syl.onset)],
                      HANGUL_ONSET[Last(syl.onset)]>>)
         ELSE Raise("KeyError")
    ELSE Raise("Error")

\* jamo_tuple after the onset is spelled: the nucleus and coda lookups
SpelledRest(syl, so) ==
    IF Raised(so) THEN so
    ELSE IF syl.nucleus \notin DOMAIN HANGUL_NUCLEUS THEN Raise("KeyError")
    ELSE IF syl.coda \in {None, <<>>}
    THEN Value(<<so.val, <<HANGUL_NUCLEUS[syl.nucleus]>>, <<>> >>)
    ELSE IF syl.coda \notin DOMAIN HANGUL_CODA THEN Raise("KeyError")
    ELSE Value(<<so.val, <<HANGUL_NUCLEUS[syl.nucleus]>>,
                 <<HANGUL_CODA[syl.coda]>> >>)

\* Monosyllable.jamo_tuple
jamo_tuple(syl) == SpelledRest(syl, SpelledOnset(syl))

\* "".join(...) of a jamo_tuple() outcome
Join(jt) ==
    IF Raised(jt) THEN jt ELSE Value(jt.val[1] \o jt.val[2] \o jt.val[3])

\* Monosyllable.jamo
MonoJamo(syl) == Join(jamo_tuple(syl))

\* jamo.jamo_to_hangul (external): one syllable block from one lead, one
\* vowel and at most one tail; a lead of any other length is a TypeError
jamo_to_hangul(lead, vowel, tail) ==
    IF Len(lead) # 1 \/ Len(vowel) # 1 \/ Len(tail) > 1
    THEN Raise("TypeError")
    ELSE Value(<<[l |-> lead[1], v |-> vowel[1],
                  t |-> IF tail = <<>> THEN "" ELSE tail[1]]>>)

\* `except TypeError: return ""`
ExceptTypeError(h) == IF h.exc = "TypeError" THEN Value(<<>>) ELSE h

\* the body of Monosyllable.hangul, given the outcome of self.jamo_tuple()
Compose(jt) ==
    IF Raised(jt) THEN jt
    ELSE ExceptTypeError(jamo_to_hangul(jt.val[1], jt.val[2], jt.val[3]))

\* Monosyllable.hangul
MonoHangul(syl) == Compose(jamo_tuple(syl))

\* self.syl1.jamo + self.syl2.jamo
JoinJamo(j1, j2) ==
    IF Raised(j1) THEN j1
    ELSE IF Raised(j2) THEN j2
    ELSE Value(j1.val \o j2.val)

\* Bisyllable.jamo
BiJamo(bi) == JoinJamo(MonoJamo(bi.syl1), MonoJamo(bi.syl2))

\* the body of Bisyllable.hangul, given the two syllables' hangul
JoinHangul(h1, h2) ==
    IF Raised(h1) THEN h1
    ELSE IF Raised(h2) THEN h2
    ELSE IF h1.val = <<>> \/ h2.val = <<>> THEN Value(<<>>)
    ELSE Value(h1.val \o h2.val)

\* Bisyllable.hangul
BiHangul(bi) == JoinHangul(MonoHangul(bi.syl1), MonoHangul(bi.syl2))

\* korean_romanizer (external): the Latin letters of each jamo of a block
ROM_LEAD ==
    [PIEUP |-> <<"b">>, TIKEUT |-> <<"d">>, CIEUC |-> <<"j">>,
     KIYEOK |-> <<"g">>, PHIEUPH |-> <<"p">>, THIEUTH |-> <<"t">>,
     CHIEUCH |-> <<"c", "h">>, KHIEUKH |-> <<"k">>, SIOS |-> <<"s">>,
     MIEUM |-> <<"m">>, NIEUN |-> <<"n">>]
ROM_VOWEL ==
    [A |-> <<"a">>, O |-> <<"o">>, U |-> <<"u">>, I |-> <<"i">>,
     WA |-> <<"w", "a">>, WI |-> <<"w", "i">>]
ROM_TAIL ==
    ("" :> <<>>) @@
    [PIEUP |-> <<"p">>, TIKEUT |-> <<"t">>, KIYEOK |-> <<"k">>,
     MIEUM |-> <<"m">>, NIEUN |-> <<"n">>, IEUNG |-> <<"n", "g">>]

\* a code point the romanizer has no entry for
Mappable(ch) ==
    /\ ch.l \in DOMAIN ROM_LEAD
    /\ ch.v \in DOMAIN ROM_VOWEL
    /\ ch.t \in DOMAIN ROM_TAIL

\* _romanize: korean_romanizer.Romanizer(hangul).romanize()
romanize(hangul) ==
    IF \E k \in 1..Len(hangul) : ~Mappable(hangul[k])
    THEN Raise("KeyError")
    ELSE Value(Flatten([k \in 1..Len(hangul) |->
                 ROM_LEAD[hangul[k].l] \o ROM_VOWEL[hangul[k].v]
                     \o ROM_TAIL[hangul[k].t]]))

---------------------------------------------------------------------------
(* CombinationGenerator                                                    *)

\* `if coda.startswith(c[0]): continue` over a coda list
CodaCheck(codas, c) ==
    SelectSeq(codas, LAMBDA coda : ~StartsWith(coda, First(c)))

MonoPlain ==
    Flatten([i \in 1..Len(SIMPLE_ONSETS) |->
      Flatten([j \in 1..Len(VOWELS) |->
        LET onset == SIMPLE_ONSETS[i]
            vowel == VOWELS[j]
            codas == CodaCheck(CODAS, onset)
        IN  [k \in 1..Len(codas) |-> Monosyllable(onset, vowel, codas[k], CVC)]])])

MonoCw ==
    Flatten([i \in 1..Len(STOP_ONSETS) |->
      Flatten([j \in 1..Len(FRONT_VOWELS) |->
        LET onset == STOP_ONSETS[i]
            vowel == FRONT_VOWELS[j]
            codas == CodaCheck(CODAS, onset)
        IN  [k \in 1..Len(codas) |->
                Monosyllable(onset, <<"w">> \o vowel, codas[k], CwVC)]])])

\* the member of a cluster that governs the coda check
MonoGovernorMut(stop, nasal) == nasal
MonoGovernor(stop, nasal) == stop

MonoPrenasal ==
    Flatten([i \in 1..Len(STOP_ONSETS) |->
      Flatten([n \in 1..Len(NASAL_ONSETS) |->
        Flatten([j \in 1..Len(VOWELS) |->
          LET stop == STOP_ONSETS[i]
              nasal == NASAL_ONSETS[n]
              onset == nasal \o stop
              codas == CodaCheck(STOP_CODAS, MonoGovernor(stop, nasal))
          IN  [k \in 1..Len(codas) |->
                  Monosyllable(onset, VOWELS[j], codas[k], NCVC)]])])])

MonoPostnasal ==
    Flatten([i \in 1..Len(STOP_ONSETS) |->
      Flatten([n \in 1..Len(NASAL_ONSETS) |->
        Flatten([j \in 1..Len(VOWELS) |->
          LET stop == STOP_ONSETS[i]
              nasal == NASAL_ONSETS[n]
              onset == stop \o nasal
              codas == CodaCheck(STOP_CODAS, MonoGovernor(stop, nasal))
          IN  [k \in 1..Len(codas) |->
                  Monosyllable(onset, VOWELS[j], codas[k], CNVC)]])])])

\* the sequence _monosyllables() yields
Monosyllables == MonoPlain \o MonoCw \o MonoPrenasal \o MonoPostnasal

\* `if onset1.startswith(onset2) or onset2.startswith(onset1): continue`
SimilarOnsets(onset1, onset2) ==
    StartsWith(onset1, onset2) \/ StartsWith(onset2, onset1)

OnsetPairs ==
    SelectSeq(Permutations2(SIMPLE_ONSETS),
              LAMBDA pr : ~SimilarOnsets(pr[1], pr[2]))

\* the coda loop of the plain family: syl2 is rebound once per admissible
\* coda and keeps its previous binding when no coda is admissible
PlainCodaLoopMut(syl2, onset2, vowel2) ==
    LET codas == CodaCheck(CODAS, onset2)
    IN  IF codas = <<>> THEN syl2
        ELSE Monosyllable(onset2, vowel2, codas[1], CVC)
PlainCodaLoop(syl2, onset2, vowel2) ==
    LET codas == CodaCheck(CODAS, onset2)
    IN  IF codas = <<>> THEN syl2
        ELSE Monosyllable(onset2, vowel2, codas[Len(codas)], CVC)

\* the binding of syl2 after the k-th iteration of the vowel loop, within one
\* onset pair that was entered with the binding `syl2`
RECURSIVE PlainSyl2(_, _, _, _)
PlainSyl2(syl2, onset2, vps, k) ==
    IF k = 0 THEN syl2
    ELSE PlainCodaLoop(PlainSyl2(syl2, onset2, vps, k - 1), onset2, vps[k][2])

\* the binding of syl2 after the p-th onset pair
RECURSIVE PlainSyl2After(_)
PlainSyl2After(p) ==
    IF p = 0 THEN Unbound
    ELSE LET vps == Permutations2(VOWELS)
         IN  PlainSyl2(PlainSyl2After(p - 1), OnsetPairs[p][2], vps, Len(vps))

DiPlain ==
    Flatten([p \in 1..Len(OnsetPairs) |->
      LET onset1 == OnsetPairs[p][1]
          onset2 == OnsetPairs[p][2]
          vps == Permutations2(VOWELS)
          entry == PlainSyl2After(p - 1)
      IN  [v \in 1..Len(vps) |->
              Bisyllable(Monosyllable(onset1, vps[v][1], None, CV),
                         PlainSyl2(entry, onset2, vps, v), CVCVC)]])

DiCw ==
    Flatten([p \in 1..Len(OnsetPairs) |->
      Flatten([v \in 1..Len(Product(FRONT_VOWELS, VOWELS)) |->
        LET onset1 == OnsetPairs[p][1]
            onset2 == OnsetPairs[p][2]
            vp == Product(FRONT_VOWELS, VOWELS)[v]
            codas == CodaCheck(CODAS, onset2)
        IN  [k \in 1..Len(codas) |->
                Bisyllable(Monosyllable(onset1, <<"w">> \o vp[1], None, CwV),
                           Monosyllable(onset2, vp[2], codas[k], CVC),
                           CwVCVC)]])])

\* `if onset2.startswith(stop): continue` over SIMPLE_ONSETS
ClusterOnset2s(stop) ==
    SelectSeq(SIMPLE_ONSETS, LAMBDA onset2 : ~StartsWith(onset2, stop))

\* the loops shared by the two cluster families, below the cluster itself
ClusterBody(onset1, stop, shape1, shape) ==
    Flatten([v \in 1..Len(Permutations2(VOWELS)) |->
      Flatten([o \in 1..Len(ClusterOnset2s(stop)) |->
        LET vp == Permutations2(VOWELS)[v]
            onset2 == ClusterOnset2s(stop)[o]
            codas == CodaCheck(CODAS, onset2)
        IN  [k \in 1..Len(codas) |->
                Bisyllable(Monosyllable(onset1, vp[1], None, shape1),
                           Monosyllable(onset2, vp[2], codas[k], CVC),
                           shape)]])])

DiPrenasal ==
    Flatten([i \in 1..Len(STOP_ONSETS) |->
      Flatten([n \in 1..Len(NASAL_ONSETS) |->
        ClusterBody(NASAL_ONSETS[n] \o STOP_ONSETS[i], STOP_ONSETS[i],
                    NCV, NCVCVC)])])

DiPostnasal ==
    Flatten([i \in 1..Len(STOP_ONSETS) |->
      Flatten([n \in 1..Len(NASAL_ONSETS) |->
        ClusterBody(STOP_ONSETS[i] \o NASAL_ONSETS[n], STOP_ONSETS[i],
                    CNV, CNVCVC)])])

\* the sequence _disyllables() yields
Disyllables == DiPlain \o DiCw \o DiPrenasal \o DiPostnasal

---------------------------------------------------------------------------
VARIABLES
    gen,        \* which generator is being iterated: "none", "mono", "di"
    gi,         \* how many entries the generator has yielded
    cur,        \* the entry yielded last (Unbound before the first)
    obj,        \* a Monosyllable or Bisyllable instance (Unbound: none built)
    jamoRes,    \* outcome of the last obj.jamo_tuple() / obj.jamo
    hangulRes,  \* outcome of the last obj.hangul
    romRes,     \* outcome of the last obj.romanization
    cache,      \* the instance's cached_property store
    romCalls,   \* arguments of the calls made to the external romanizer
    pc,         \* generate.main: the statement it is at ("idle": not run)
    lexfile,    \* the words (first column) of the rows of the lexicon file
    li,         \* how many lexicon rows have been read
    lexicon,    \* the lookup set `lexicon`
    monoOut,    \* rows written to monosyllables.tsv after the header, each
                \* named by the ordinal of the entry whose `line` it is
    di,         \* how many disyllables the filter loop has taken
    written,    \* rows written to disyllables.tsv after the header, each
                \* named by the ordinal of the entry whose `line` it is
    logged,     \* ordinals of the entries reported "is lexical"
    filtered,   \* the counter `filtered` (reported when main ends)
    spc,        \* stratify.main: the statement it is at ("idle": not run)
    run,        \* which run of stratify.main this is
    rng,        \* state of the module-level pseudo-random source
    rngLog,     \* this run's uses of the source: <<"seed", n>>, <<"shuffle", what>>
    tables,     \* the two annotated input tables: [mono, dis]
    by_shape,   \* the dict by_shape, in insertion order: <<[shape, entries]>>
    rowVar,     \* main's loop variable `row`: a row reference, 0 if unbound
    gidx,       \* how many items of by_shape.items() have been taken
    list1,      \* row references
    list2,      \* row references
    files,      \* the output files: [exists, rows] for LIST1 and LIST2
    opened,     \* the output files this run has opened for writing
    err,        \* the exception that ended this run (<<>> if none)
    prev        \* the output files as the previous run left them

genVars == <<gen, gi, cur>>
sylVars == <<obj, jamoRes, hangulRes, romRes, cache, romCalls>>
mainVars == <<pc, lexfile, li, lexicon, monoOut, di, written, logged, filtered>>
sampVars == <<spc, run, rng, rngLog, tables, by_shape, rowVar, gidx, list1,
              list2, files, opened, err, prev>>
vars == <<gen, gi, cur, obj, jamoRes, hangulRes, romRes, cache, romCalls,
          pc, lexfile, li, lexicon, monoOut, di, written, logged, filtered,
          spc, run, rng, rngLog, tables, by_shape, rowVar, gidx, list1,
          list2, files, opened, err, prev>>

\* an instance attribute store with nothing cached in it
Empty == [set |-> FALSE, val |-> <<>>]

\* no generator is running
GenIdle == gen = "none" /\ gi = 0 /\ cur = Unbound

\* no instance is under evaluation
SylIdle ==
    /\ obj = Unbound
    /\ jamoRes = Unbound
    /\ hangulRes = Unbound
    /\ romRes = Unbound
    /\ cache = [hangul |-> Empty, romanization |-> Empty]
    /\ romCalls = <<>>

\* generate.main is not running
MainIdle ==
    /\ pc = "idle"
    /\ lexfile = <<>>
    /\ li = 0
    /\ lexicon = {}
    /\ monoOut = <<>>
    /\ di = 0
    /\ written = <<>>
    /\ logged = <<>>
    /\ filtered = 0

\* an output file that does not exist
Absent == [exists |-> FALSE, rows |-> <<>>]

\* stratify.main is not running
SampIdle ==
    /\ spc = "idle"
    /\ run = 0
    /\ rng = 0
    /\ rngLog = <<>>
    /\ tables = [mono |-> <<>>, dis |-> <<>>]
    /\ by_shape = <<>>
    /\ rowVar = 0
    /\ gidx = 0
    /\ list1 = <<>>
    /\ list2 = <<>>
    /\ files = <<Absent, Absent>>
    /\ opened = {}
    /\ err = <<>>
    /\ prev = <<Absent, Absent>>

---------------------------------------------------------------------------
(* Iteration of the generators                                             *)

GenInit ==
    /\ gen \in {"mono", "di"}
    /\ gi = 0
    /\ cur = Unbound
    /\ SylIdle
    /\ MainIdle
    /\ SampIdle

\* one resumption of the _monosyllables() iterator
NextMonosyllable ==
    /\ gen = "mono"
    /\ gi < Len(Monosyllables)
    /\ gi' = gi + 1
    /\ cur' = Monosyllables[gi + 1]
    /\ UNCHANGED <<gen, sylVars, mainVars, sampVars>>

\* one resumption of the _disyllables() iterator
NextDisyllable ==
    /\ gen = "di"
    /\ gi < Len(Disyllables)
    /\ gi' = gi + 1
    /\ cur' = Disyllables[gi + 1]
    /\ UNCHANGED <<gen, sylVars, mainVars, sampVars>>

GenNext == NextMonosyllable \/ NextDisyllable

SpecGen == GenInit /\ [][GenNext]_vars

\* the stop member of the cluster that opens a syllable: the cluster without
\* its leading nasal (NCV...) or without its trailing nasal (CNV...)
ClusterStop(syl) ==
    IF StartsWith(syl.shape, NCV) THEN Rest(syl.onset) ELSE ButLast(syl.onset)

\* the consonant of the onset that governs the coda check
Governing(syl) ==
    IF syl.shape \in {CVC, CwVC} THEN syl.onset ELSE ClusterStop(syl)

\* C1: in every disyllable _disyllables() yields, of any family, neither
\* syllable's onset string is a prefix of the other's.
C1_OnsetDissimilation ==
    (gen = "di" /\ gi > 0) =>
        /\ ~StartsWith(cur.syl1.onset, cur.syl2.onset)
        /\ ~StartsWith(cur.syl2.onset, cur.syl1.onset)

\* C2: in every NCVCVC or CNVCVC disyllable yielded, the first character of
\* the second onset differs from the first character of the stop member of
\* the first syllable's cluster.
C2_ClusterPlaceExclusion ==
    (gen = "di" /\ gi > 0 /\ cur.shape \in {NCVCVC, CNVCVC}) =>
        First(cur.syl2.onset) # First(ClusterStop(cur.syl1))

\* C3: in every monosyllable _monosyllables() yields, the first character
\* of the coda differs from the first character of the governing consonant
\* of the onset: the onset for CVC and CwVC, the stop member of the cluster
\* for NCVC and CNVC.
C3_CodaExclusion ==
    (gen = "mono" /\ gi > 0) => First(cur.coda) # First(Governing(cur))

\* a post-nasal monosyllable on an aspirated stop has been yielded
C3_Witness ==
    /\ gen = "mono" /\ gi > 0
    /\ cur.shape = CNVC
    /\ cur.onset = <<"p", "h", "m">>
    /\ cur.coda = <<"k", "^">>

\* the last coda, in CODAS order, whose first character differs from the
\* first character of onset2
LastCoda(onset2) ==
    CODAS[CHOOSE k \in 1..Len(CODAS) :
        /\ First(CODAS[k]) # First(onset2)
        /\ \A m \in (k + 1)..Len(CODAS) : First(CODAS[m]) = First(onset2)]

\* the ordered pairs of distinct simple onsets neither of which is a prefix
\* of the other
AdmissiblePairs ==
    {pr \in {SIMPLE_ONSETS[i] : i \in 1..Len(SIMPLE_ONSETS)} \X
            {SIMPLE_ONSETS[i] : i \in 1..Len(SIMPLE_ONSETS)} :
        ~StartsWith(pr[1], pr[2]) /\ ~StartsWith(pr[2], pr[1])}

\* the ordered pairs of distinct vowels
VowelPairs ==
    {vp \in {VOWELS[i] : i \in 1..Len(VOWELS)} \X
            {VOWELS[i] : i \in 1..Len(VOWELS)} : vp[1] # vp[2]}

\* the number of CVCVC disyllables among the first n yielded whose onsets
\* are those of pr and whose vowels are those of vp
PlainYields(n, pr, vp) ==
    Cardinality({k \in 1..n :
        /\ Disyllables[k].shape = CVCVC
        /\ Disyllables[k].syl1.onset = pr[1]
        /\ Disyllables[k].syl2.onset = pr[2]
        /\ Disyllables[k].syl1.nucleus = vp[1]
        /\ Disyllables[k].syl2.nucleus = vp[2]})

\* C11: in the plain (CVCVC) family exactly one disyllable is yielded per
\* admissible onset pair and ordered vowel pair, not one per coda; its
\* second syllable is Monosyllable(onset2, vowel2, c, "CVC") for the onset2
\* and vowel2 of the current iteration, c being the last coda in CODAS order
\* whose first character differs from that of onset2.
C11_PlainYieldsOncePerPair ==
    (gen = "di" /\ gi > 0) =>
        /\ cur.shape = CVCVC <=>
              gi <= Cardinality(AdmissiblePairs) * Cardinality(VowelPairs)
        /\ cur.shape = CVCVC =>
              /\ cur.syl1 =
                    Monosyllable(
                        OnsetPairs[((gi - 1) \div Cardinality(VowelPairs)) + 1][1],
                        Permutations2(VOWELS)
                            [((gi - 1) % Cardinality(VowelPairs)) + 1][1],
                        None, CV)
              /\ cur.syl2 =
                    Monosyllable(
                        OnsetPairs[((gi - 1) \div Cardinality(VowelPairs)) + 1][2],
                        Permutations2(VOWELS)
                            [((gi - 1) % Cardinality(VowelPairs)) + 1][2],
                        LastCoda(cur.syl2.onset), CVC)
              /\ <<cur.syl1.onset, cur.syl2.onset>> \in AdmissiblePairs
              /\ <<cur.syl1.nucleus, cur.syl2.nucleus>> \in VowelPairs
              /\ PlainYields(gi, <<cur.syl1.onset, cur.syl2.onset>>,
                             <<cur.syl1.nucleus, cur.syl2.nucleus>>) = 1

\* a plain disyllable whose second onset excludes the last coda of CODAS
C11_Witness ==
    /\ gen = "di" /\ gi > 0
    /\ cur.shape = CVCVC
    /\ cur.syl1.onset = <<"p">>
    /\ cur.syl2.onset = <<"k", "h">>
    /\ cur.syl2.coda = <<"t", "^">>

\* the vowel of a syllable: its nucleus without a leading glide
Vowel(syl) ==
    IF First(syl.nucleus) = <<"w">> THEN Rest(syl.nucleus) ELSE syl.nucleus

\* C12: in every disyllable _disyllables() yields, of any of the four
\* families, the vowel of the first syllable (its nucleus without a leading
\* glide w) differs from the vowel of the second syllable.
C12_VowelDissimilation ==
    (gen = "di" /\ gi > 0) => Vowel(cur.syl1) # Vowel(cur.syl2)

---------------------------------------------------------------------------
(* Evaluation of one instance's derived attributes                         *)

\* shape arguments an instance is built with: the eight tags, the default
\* None, and tags outside the eight
ShapeArgs ==
    KnownShapes \cup
    {None, <<"N", "C", "V", "X">>, <<"C", "N", "V", "C", "C">>,
     <<"V", "C">>, CVCVC}

OnsetArgs ==
    { <<"p">>, <<"p", "h">>, <<"s">>, <<"m">>, <<"m", "p">>,
      <<"n", "p", "h">>, <<"p", "m">>, <<"p", "h", "n">>, <<"x">> }

NucleusArgs == { <<"a">>, <<"w", "i">>, <<"w", "o">> }

CodaArgs == { None, <<"n">>, <<"p", "^">> }

MonoObjects ==
    { Monosyllable(o, n, c, s) :
        o \in OnsetArgs, n \in NucleusArgs, c \in CodaArgs, s \in ShapeArgs }

BiObjects ==
    { Bisyllable(Monosyllable(o1, n1, None, s1),
                 Monosyllable(o2, <<"o">>, c2, CVC), s1 \o CVC) :
        o1 \in { <<"p">>, <<"m", "p">>, <<"p", "h", "m">> },
        n1 \in { <<"a">>, <<"w", "i">> },
        s1 \in { CV, CwV, NCV, CNV },
        o2 \in { <<"t">>, <<"s">> },
        c2 \in { <<"n">>, <<"k", "^">> } }

IsBisyllable(o) == "syl1" \in DOMAIN o

SylInit ==
    /\ obj \in MonoObjects \cup BiObjects
    /\ jamoRes = Unbound
    /\ hangulRes = Unbound
    /\ romRes = Unbound
    /\ cache = [hangul |-> Empty, romanization |-> Empty]
    /\ romCalls = <<>>
    /\ GenIdle
    /\ MainIdle
    /\ SampIdle

\* obj.jamo
Jamo(o) == IF IsBisyllable(o) THEN BiJamo(o) ELSE MonoJamo(o)

\* the body of the cached property obj.hangul
Hangul(o) == IF IsBisyllable(o) THEN BiHangul(o) ELSE MonoHangul(o)

\* functools.cached_property: the stored value when there is one, else the
\* body's outcome
Cached(store, outcome) == IF store.set THEN Value(store.val) ELSE outcome

\* what a cached property leaves in the store: a returned value is kept, an
\* exception stores nothing
Store(store, outcome) ==
    IF ~store.set /\ ~Raised(outcome)
    THEN [set |-> TRUE, val |-> outcome.val]
    ELSE store

\* the body of the cached property obj.romanization: _romanize(self.hangul)
Romanization(h) ==
    IF Raised(h) THEN h
    ELSE romanize(h.val)

\* an access to obj.jamo
GetJamo ==
    /\ obj # Unbound
    /\ jamoRes' = Jamo(obj)
    /\ UNCHANGED <<obj, hangulRes, romRes, cache, romCalls, genVars, mainVars, sampVars>>

\* an access to obj.hangul
GetHangul ==
    /\ obj # Unbound
    /\ \E h \in {Cached(cache.hangul, Hangul(obj))} :
           /\ hangulRes' = h
           /\ cache' = [cache EXCEPT !.hangul = Store(@, h)]
    /\ UNCHANGED <<obj, jamoRes, romRes, romCalls, genVars, mainVars, sampVars>>

\* an access to obj.romanization; the body runs only when nothing is cached,
\* and it starts by an access to obj.hangul
GetRomanization ==
    /\ obj # Unbound
    /\ \/ /\ cache.romanization.set
          /\ romRes' = Value(cache.romanization.val)
          /\ UNCHANGED <<cache, romCalls>>
       \/ /\ ~cache.romanization.set
          /\ \E h \in {Cached(cache.hangul, Hangul(obj))} :
             \E r \in {Romanization(h)} :
                /\ romRes' = r
                /\ romCalls' = IF Raised(h) THEN romCalls
                               ELSE Append(romCalls, h.val)
                /\ cache' = [hangul |-> Store(cache.hangul, h),
                             romanization |-> Store(cache.romanization, r)]
    /\ UNCHANGED <<obj, jamoRes, hangulRes, genVars, mainVars, sampVars>>

SylNext == GetJamo \/ GetHangul \/ GetRomanization

SpecSyl == SylInit /\ [][SylNext]_vars

\* C8: the external romanizer is entered only on a non-empty hangul, and
\* when it fails on the hangul the romanization attribute is the empty
\* string rather than the failure.
C8_RomanizerGuarded ==
    /\ \A k \in 1..Len(romCalls) : romCalls[k] # <<>>
    /\ \A k \in 1..Len(romCalls) :
           (romRes # Unbound /\ Raised(romanize(romCalls[k])))
               => romRes = Value(<<>>)

\* C9: jamo assembly of a Monosyllable whose shape tag is none of the eight
\* tags raises Error and returns no jamo sequence.
C9_UnknownShapeRaisesError ==
    (~IsBisyllable(obj) /\ obj.shape \notin KnownShapes /\ jamoRes # Unbound)
        => jamoRes.exc = "Error"

---------------------------------------------------------------------------
(* generate.main: the monosyllable table, the lexicon, the lexical filter  *)

\* a code point that is not a Hangul syllable
Foreign == [l |-> "LATIN", v |-> "", t |-> ""]

\* rows a lexicon file is made of: the word of the first plain disyllable,
\* a word the romanizer cannot map, a row whose word is empty, the word of
\* the first glide disyllable, and a word that is no generated disyllable
LexRows ==
    << BiHangul(DiPlain[1]).val,
       <<Foreign>>,
       <<>>,
       BiHangul(DiCw[1]).val,
       MonoHangul(Monosyllable(<<"s">>, <<"a">>, <<"n">>, CVC)).val >>

\* the longest lexicon file read
MaxLexRows == 3

LexiconFiles == { SubSeq(LexRows, 1, n) : n \in 0..MaxLexRows }

MainInit ==
    /\ pc = "monosyllables"
    /\ lexfile \in LexiconFiles
    /\ li = 0
    /\ lexicon = {}
    /\ monoOut = <<>>
    /\ di = 0
    /\ written = <<>>
    /\ logged = <<>>
    /\ filtered = 0
    /\ GenIdle
    /\ SylIdle
    /\ SampIdle

\* evaluating entry.line raises (through jamo, hangul or romanization)
LineRaises(entry) ==
    \/ Raised(Jamo(entry))
    \/ Raised(Romanization(Hangul(entry)))

\* the rows `for entry in _monosyllables(): tsv_writer.writerow(entry.line)`
\* writes: every entry before the first whose line raises
MonoRows ==
    LET bad == {k \in 1..Len(Monosyllables) : LineRaises(Monosyllables[k])}
        stop == IF bad = {} THEN Len(Monosyllables) + 1
                ELSE CHOOSE k \in bad : \A j \in bad : k <= j
    IN  [k \in 1..(stop - 1) |-> k]

\* main, first `with` block: monosyllables.tsv
WriteMonosyllables ==
    /\ pc = "monosyllables"
    /\ \E rows \in {MonoRows} :
          /\ monoOut' = rows
          /\ pc' = IF Len(rows) = Len(Monosyllables) THEN "lexicon"
                   ELSE "raised"
    /\ UNCHANGED <<lexfile, li, lexicon, di, written, logged, filtered,
                   genVars, sylVars, sampVars>>

\* one iteration of `for word, _ in tsv_reader`: the word's romanization is
\* added, unless the romanizer raises KeyError or AttributeError
ReadLexiconRow ==
    /\ pc = "lexicon"
    /\ li < Len(lexfile)
    /\ li' = li + 1
    /\ \E r \in {romanize(lexfile[li + 1])} :
          lexicon' = IF r.exc \in {"KeyError", "AttributeError"}
                     THEN lexicon
                     ELSE lexicon \cup {r.val}
    /\ UNCHANGED <<pc, lexfile, monoOut, di, written, logged, filtered,
                   genVars, sylVars, sampVars>>

\* the lexicon is exhausted; disyllables.tsv is opened, its header written
\* and `filtered = 0` executed
OpenDisyllables ==
    /\ pc = "lexicon"
    /\ li = Len(lexfile)
    /\ pc' = "disyllables"
    /\ filtered' = 0
    /\ UNCHANGED <<lexfile, li, lexicon, monoOut, di, written, logged,
                   genVars, sylVars, sampVars>>

\* `if entry.romanization and entry.romanization in lexicon`
IsLexicalMut(rom, lex) == rom # <<>> \/ rom \in lex
IsLexical(rom, lex) == rom # <<>> /\ rom \in lex

\* one iteration of `for entry in _disyllables()`
HandleDisyllable ==
    /\ pc = "disyllables"
    /\ di < Len(Disyllables)
    /\ di' = di + 1
    /\ \E rom \in {Romanization(Hangul(Disyllables[di + 1]))} :
          IF Raised(rom) \/ LineRaises(Disyllables[di + 1])
          THEN /\ pc' = "raised"
               /\ UNCHANGED <<written, logged, filtered>>
          ELSE IF IsLexical(rom.val, lexicon)
          THEN /\ logged' = Append(logged, di + 1)
               /\ filtered' = filtered + 1
               /\ UNCHANGED <<pc, written>>
          ELSE /\ written' = Append(written, di + 1)
               /\ UNCHANGED <<pc, logged, filtered>>
    /\ UNCHANGED <<lexfile, li, lexicon, monoOut, genVars, sylVars, sampVars>>

\* the generator is exhausted; the count of filtered disyllables is reported
Finish ==
    /\ pc = "disyllables"
    /\ di = Len(Disyllables)
    /\ pc' = "done"
    /\ UNCHANGED <<lexfile, li, lexicon, monoOut, di, written, logged,
                   filtered, genVars, sylVars, sampVars>>

MainNext ==
    \/ WriteMonosyllables
    \/ ReadLexiconRow
    \/ OpenDisyllables
    \/ HandleDisyllable
    \/ Finish

SpecMain == MainInit /\ [][MainNext]_vars

\* the romanization of the k-th disyllable yielded
RomOf(k) == Romanization(BiHangul(Disyllables[k])).val

\* the k-th disyllable is one the claim says is suppressed
ToSuppress(k) == RomOf(k) # <<>> /\ RomOf(k) \in lexicon

Ordinals == [k \in 1..Len(Disyllables) |-> k]

\* C10: in the disyllable pass every disyllable yielded is handled exactly
\* once, written or suppressed; it is suppressed iff its romanization is
\* non-empty and in the lookup set; written rows keep generator order; and
\* the final filtered count is the number of suppressed disyllables.
C10_LexicalFilter ==
    /\ filtered = Len(logged)
    /\ pc \in {"disyllables", "done"} => Len(written) + Len(logged) = di
    /\ (pc \in {"disyllables", "done"} /\ di > 0) =>
          IF ToSuppress(di)
          THEN logged # <<>> /\ logged[Len(logged)] = di
          ELSE written # <<>> /\ written[Len(written)] = di
    /\ pc = "done" =>
          /\ di = Len(Disyllables)
          /\ logged = SelectSeq(Ordinals, LAMBDA k : ToSuppress(k))
          /\ written = SelectSeq(Ordinals, LAMBDA k : ~ToSuppress(k))

\* with the empty romanization in the lookup set, the first disyllable has
\* been suppressed and counted, the following ones written in order
C10_Witness ==
    /\ pc = "disyllables"
    /\ <<>> \in lexicon
    /\ filtered = 1
    /\ logged = <<1>>
    /\ written = <<2, 3>>

---------------------------------------------------------------------------
(* stratify.py: the stratified sampler                                     *)

SEED == 1568

\* draw size of the four coda-bearing monosyllable shapes
SmallSize == 5

\* draw size of every other shape
LargeSize == 10

\* `if shape in ["CVC", "CwVC", "CNVC", "NCVC"]`
SmallShapes == {"CVC", "CwVC", "CNVC", "NCVC"}

Size(shape) == IF shape \in SmallShapes THEN SmallSize ELSE LargeSize

\* the pseudo-random source (external): a deterministic generator, written
\* here as a linear congruential one
RandomStep(state) == (state * 75 + 74) % 65537

\* the index in 0..n-1 drawn in a state of the source
RandBelow(state, n) == state % n

\* x[i], x[j] = x[j], x[i]   (1-based)
Swap(xs, i, j) == [xs EXCEPT ![i] = xs[j], ![j] = xs[i]]

\* random.shuffle(x): for i in reversed(range(1, len(x))):
\*                        j = randbelow(i + 1); x[i], x[j] = x[j], x[i]
RECURSIVE ShuffleFrom(_, _, _)
ShuffleFrom(xs, i, state) ==
    IF i < 1 \/ Len(xs) < 2 THEN [list |-> xs, state |-> state]
    ELSE ShuffleFrom(
             Swap(xs, i + 1, RandBelow(RandomStep(state), i + 1) + 1),
             i - 1, RandomStep(state))

Shuffle(xs, state) == ShuffleFrom(xs, Len(xs) - 1, state)

\* random.seed(SEED): the state of the source afterwards
ReseedMut(state) == state
Reseed(state) == SEED

\* elist[:size]
Slice1(elist, size) == SubSeq(elist, 1, size)

\* elist[size : 2 * size]
Slice2(elist, size) == SubSeq(elist, size + 1, 2 * size)

(* The annotated input tables *)

MonoShapes == <<"CVC", "CwVC", "NCVC", "CNVC">>
DiShapes == <<"CVCVC", "CwVCVC", "NCVCVC", "CNVCVC">>

Reverse(xs) == [k \in 1..Len(xs) |-> xs[Len(xs) + 1 - k]]

\* rows a shape has beyond twice its draw size when it has enough
MaxExtra == 1

\* how many rows of a shape carry lexicality FALSE
Levels == {"absent", "short", "full"}
CountOf(shape, level) ==
    CASE level = "absent" -> 0
      [] level = "short" -> 2 * Size(shape) - 1
      [] level = "full" -> 2 * Size(shape) + MaxExtra

\* the k-th row of a shape; with `dup` the first two rows of a shape have
\* the same phonemic columns
TableRow(shape, k, lex, disyllabic, dup) ==
    [onset1 |-> IF disyllabic THEN "p" ELSE "",
     nucleus1 |-> IF disyllabic THEN "i" ELSE "",
     onset2 |-> "t",
     nucleus2 |-> "a",
     coda |-> shape \o ToString(IF dup /\ k = 2 THEN 1 ELSE k),
     shape |-> shape,
     lexicality |-> lex,
     memo |-> ""]

\* a table: a row of the last shape that is not retained, then for each
\* shape in order its retained rows followed by a row marked "false"
Table(shapes, level, disyllabic, dup) ==
    <<TableRow(shapes[Len(shapes)], 0, "TRUE", disyllabic, FALSE)>> \o
    Flatten([i \in 1..Len(shapes) |->
        [k \in 1..CountOf(shapes[i], level[shapes[i]]) |->
            TableRow(shapes[i], k, "FALSE", disyllabic, dup)]
        \o <<TableRow(shapes[i], 0, "false", disyllabic, FALSE)>>])

InputTables ==
    { [mono |-> Table(IF rev THEN Reverse(MonoShapes) ELSE MonoShapes,
                      ml, FALSE, dup),
       dis |-> Table(IF rev THEN Reverse(DiShapes) ELSE DiShapes,
                     [sh \in {DiShapes[i] : i \in 1..4} |-> dl], TRUE, dup)] :
        ml \in [{MonoShapes[i] : i \in 1..4} -> Levels],
        dl \in Levels, rev \in BOOLEAN, dup \in BOOLEAN }

\* states the process's pseudo-random source may be in before main runs
MaxEntropy == 1

\* how many times main is run in one process
MaxRuns == 2

SampInit ==
    /\ spc = "seed"
    /\ run = 1
    /\ rng \in 0..MaxEntropy
    /\ rngLog = <<>>
    /\ tables \in InputTables
    /\ by_shape = <<>>
    /\ rowVar = 0
    /\ gidx = 0
    /\ list1 = <<>>
    /\ list2 = <<>>
    /\ files = <<Absent, Absent>>
    /\ opened = {}
    /\ err = <<>>
    /\ prev = <<Absent, Absent>>
    /\ GenIdle
    /\ SylIdle
    /\ MainIdle

\* a row reference: the row's position, monosyllable table first
RowAt(ref) ==
    IF ref <= Len(tables.mono) THEN tables.mono[ref]
    ELSE tables.dis[ref - Len(tables.mono)]

\* _proc_file: the references of the rows it yields, in file order
ProcFile(table, offset) ==
    SelectSeq([k \in 1..Len(table) |-> offset + k],
              LAMBDA ref : table[ref - offset].lexicality = "FALSE")

\* _proc_file: the row it yields for an input row
ProcRow(r) ==
    [onset1 |-> r.onset1, nucleus1 |-> r.nucleus1, onset2 |-> r.onset2,
     nucleus2 |-> r.nucleus2, coda |-> r.coda, shape |-> r.shape,
     transcription |->
         r.onset1 \o r.nucleus1 \o r.onset2 \o r.nucleus2 \o r.coda]

\* the shape _proc_file yields with each row
ShapesOf(refs) == [k \in 1..Len(refs) |-> RowAt(refs[k]).shape]

\* the positions of the values of `shapes` that by_shape does not hold yet,
\* each at its first occurrence
NewKeys(bs, shapes) ==
    SelectSeq([k \in 1..Len(shapes) |-> k], LAMBDA k :
        /\ \A i \in 1..Len(bs) : bs[i].shape # shapes[k]
        /\ \A m \in 1..(k - 1) : shapes[m] # shapes[k])

\* the rows yielded with `shape`, in file order
EntriesOf(refs, shapes, shape) ==
    SelectSeq(refs, LAMBDA ref :
        \E k \in 1..Len(refs) : refs[k] = ref /\ shapes[k] = shape)

\* by_shape after the loop: a dict keeps its keys in insertion order
Grouped(bs, refs, shapes, keys) ==
    [i \in 1..Len(bs) |->
        [shape |-> bs[i].shape,
         entries |-> bs[i].entries \o EntriesOf(refs, shapes, bs[i].shape)]] \o
    [n \in 1..Len(keys) |->
        [shape |-> shapes[keys[n]],
         entries |-> EntriesOf(refs, shapes, shapes[keys[n]])]]

\* `for shape, row in _proc_file(...): by_shape[shape].append(row)` on a
\* defaultdict(list)
ReadInto(bs, refs) ==
    Grouped(bs, refs, ShapesOf(refs), NewKeys(bs, ShapesOf(refs)))

\* the binding of the loop variable after a loop over `refs`
LoopVar(before, refs) == IF refs = <<>> THEN before ELSE refs[Len(refs)]

\* lines 46-49
Begin ==
    /\ spc = "seed"
    /\ rng' = Reseed(rng)
    /\ rngLog' = Append(rngLog, <<"seed", Reseed(rng)>>)
    /\ list1' = <<>>
    /\ list2' = <<>>
    /\ by_shape' = <<>>
    /\ spc' = "read_mono"
    /\ UNCHANGED <<run, tables, rowVar, gidx, files, opened, err, prev,
                   genVars, sylVars, mainVars>>

\* lines 50-51
ReadMonosyllables ==
    /\ spc = "read_mono"
    /\ \E refs \in {ProcFile(tables.mono, 0)} :
          /\ by_shape' = ReadInto(by_shape, refs)
          /\ rowVar' = LoopVar(rowVar, refs)
    /\ spc' = "read_dis"
    /\ UNCHANGED <<run, rng, rngLog, tables, gidx, list1, list2, files,
                   opened, err, prev, genVars, sylVars, mainVars>>

\* lines 52-53
ReadDisyllables ==
    /\ spc = "read_dis"
    /\ \E refs \in {ProcFile(tables.dis, Len(tables.mono))} :
          /\ by_shape' = ReadInto(by_shape, refs)
          /\ rowVar' = LoopVar(rowVar, refs)
    /\ spc' = "groups"
    /\ gidx' = 0
    /\ UNCHANGED <<run, rng, rngLog, tables, list1, list2, files, opened,
                   err, prev, genVars, sylVars, mainVars>>

\* one iteration of `for shape, entries in by_shape.items()` whose assertion
\* holds
DrawGroup ==
    /\ spc = "groups"
    /\ gidx < Len(by_shape)
    /\ \E g \in {by_shape[gidx + 1]} :
          /\ Len(g.entries) >= Size(g.shape) * 2
          /\ \E sh \in {Shuffle(g.entries, rng)} :
                /\ rng' = sh.state
                /\ list1' = list1 \o Slice1(sh.list, Size(g.shape))
                /\ list2' = list2 \o Slice2(sh.list, Size(g.shape))
          /\ rngLog' = Append(rngLog, <<"shuffle", g.shape>>)
    /\ gidx' = gidx + 1
    /\ UNCHANGED <<spc, run, tables, by_shape, rowVar, files, opened, err,
                   prev, genVars, sylVars, mainVars>>

\* an iteration whose assertion fails: AssertionError((shape, len(elist)))
AssertFails ==
    /\ spc = "groups"
    /\ gidx < Len(by_shape)
    /\ \E g \in {by_shape[gidx + 1]} :
          /\ Len(g.entries) < Size(g.shape) * 2
          /\ err' = <<"AssertionError", g.shape, Len(g.entries)>>
    /\ spc' = "failed"
    /\ UNCHANGED <<run, rng, rngLog, tables, by_shape, rowVar, gidx, list1,
                   list2, files, opened, prev, genVars, sylVars, mainVars>>

\* line 65
ShuffleList1 ==
    /\ spc = "groups"
    /\ gidx = Len(by_shape)
    /\ \E sh \in {Shuffle(list1, rng)} :
          /\ rng' = sh.state
          /\ list1' = sh.list
    /\ rngLog' = Append(rngLog, <<"shuffle", "list1">>)
    /\ spc' = "shuffle2"
    /\ UNCHANGED <<run, tables, by_shape, rowVar, gidx, list2, files, opened,
                   err, prev, genVars, sylVars, mainVars>>

\* line 66
ShuffleList2 ==
    /\ spc = "shuffle2"
    /\ \E sh \in {Shuffle(list2, rng)} :
          /\ rng' = sh.state
          /\ list2' = sh.list
    /\ rngLog' = Append(rngLog, <<"shuffle", "list2">>)
    /\ spc' = "open1"
    /\ UNCHANGED <<run, tables, by_shape, rowVar, gidx, list1, files, opened,
                   err, prev, genVars, sylVars, mainVars>>

\* open(path, "w"): the file exists and is empty
Truncated == [exists |-> TRUE, rows |-> <<>>]

\* DictWriter(sink, fieldnames=row.keys()); writer.writeheader();
\* writer.writerows(rows): the header line, then the rows
Written(refs, row) ==
    [exists |-> TRUE,
     rows |-> <<[fieldnames |-> DOMAIN ProcRow(RowAt(row))]>> \o
              [k \in 1..Len(refs) |-> ProcRow(RowAt(refs[k]))]]

\* line 67
OpenList1 ==
    /\ spc = "open1"
    /\ files' = [files EXCEPT ![1] = Truncated]
    /\ opened' = opened \cup {1}
    /\ spc' = "write1"
    /\ UNCHANGED <<run, rng, rngLog, tables, by_shape, rowVar, gidx, list1,
                   list2, err, prev, genVars, sylVars, mainVars>>

\* lines 68-70, `row` bound
WriteList1 ==
    /\ spc = "write1"
    /\ rowVar # 0
    /\ files' = [files EXCEPT ![1] = Written(list1, rowVar)]
    /\ spc' = "open2"
    /\ UNCHANGED <<run, rng, rngLog, tables, by_shape, rowVar, gidx, list1,
                   list2, opened, err, prev, genVars, sylVars, mainVars>>

\* line 68 when no loop has bound `row`: row.keys() raises
RowUnbound ==
    /\ spc = "write1"
    /\ rowVar = 0
    /\ err' = <<"UnboundLocalError", "row">>
    /\ spc' = "failed"
    /\ UNCHANGED <<run, rng, rngLog, tables, by_shape, rowVar, gidx, list1,
                   list2, files, opened, prev, genVars, sylVars, mainVars>>

\* line 71
OpenList2 ==
    /\ spc = "open2"
    /\ files' = [files EXCEPT ![2] = Truncated]
    /\ opened' = opened \cup {2}
    /\ spc' = "write2"
    /\ UNCHANGED <<run, rng, rngLog, tables, by_shape, rowVar, gidx, list1,
                   list2, err, prev, genVars, sylVars, mainVars>>

\* lines 72-74 (`row` is bound: line 68 has passed)
WriteList2 ==
    /\ spc = "write2"
    /\ files' = [files EXCEPT ![2] = Written(list2, rowVar)]
    /\ spc' = "done"
    /\ UNCHANGED <<run, rng, rngLog, tables, by_shape, rowVar, gidx, list1,
                   list2, opened, err, prev, genVars, sylVars, mainVars>>

\* main is run again in the same process on the same tables: its locals are
\* fresh, the module-level source and the files are as the last run left them
Rerun ==
    /\ spc = "done"
    /\ run < MaxRuns
    /\ run' = run + 1
    /\ prev' = files
    /\ spc' = "seed"
    /\ rngLog' = <<>>
    /\ by_shape' = <<>>
    /\ rowVar' = 0
    /\ gidx' = 0
    /\ list1' = <<>>
    /\ list2' = <<>>
    /\ opened' = {}
    /\ err' = <<>>
    /\ UNCHANGED <<rng, tables, files, genVars, sylVars, mainVars>>

SampNext ==
    \/ Begin
    \/ ReadMonosyllables
    \/ ReadDisyllables
    \/ DrawGroup
    \/ AssertFails
    \/ ShuffleList1
    \/ ShuffleList2
    \/ OpenList1
    \/ WriteList1
    \/ RowUnbound
    \/ OpenList2
    \/ WriteList2
    \/ Rerun

SpecSample == SampInit /\ [][SampNext]_vars

(* Claims about the sampler *)

\* the data rows of an output file
ListRows(f) ==
    IF files[f].rows = <<>> THEN <<>>
    ELSE SubSeq(files[f].rows, 2, Len(files[f].rows))

RowsOfShape(f, shape) ==
    Cardinality({k \in 1..Len(ListRows(f)) : ListRows(f)[k].shape = shape})

AllShapes == {MonoShapes[i] : i \in 1..4} \cup {DiShapes[i] : i \in 1..4}

\* C4: on every pair of input tables on which main runs to completion, each
\* output list holds exactly 5 rows of each of CVC, CwVC, CNVC, NCVC and
\* exactly 10 rows of each of CVCVC, CwVCVC, NCVCVC, CNVCVC, 60 rows in all,
\* also when one of the eight shapes has no row with lexicality FALSE.
C4_BalancedComposition ==
    spc = "done" =>
        \A f \in 1..2 :
            /\ \A shape \in AllShapes : RowsOfShape(f, shape) = Size(shape)
            /\ Len(ListRows(f)) = 60

\* C5: on every pair of input tables on which main runs to completion, also
\* one in which two retained rows have the same phonemic columns, no
\* transcription value occurs both in a row of list 1 and in a row of list 2.
C5_DisjointTranscriptions ==
    spc = "done" =>
        \A i \in 1..Len(ListRows(1)) : \A j \in 1..Len(ListRows(2)) :
            ListRows(1)[i].transcription # ListRows(2)[j].transcription

\* C6: a run is all-or-nothing: a run that fails has opened neither output
\* file and leaves no output file created but empty, and a failure reports
\* the shape group that is too small with its count; a run that completes
\* has written both lists in full.
C6_AllOrNothing ==
    /\ spc = "failed" =>
          /\ opened = {}
          /\ \A f \in 1..2 : files[f] # Truncated
          /\ err[1] = "AssertionError"
    /\ spc = "done" =>
          \A f \in 1..2 : files[f] = Written(IF f = 1 THEN list1 ELSE list2,
                                             rowVar)

\* the shapes of the retained rows, monosyllable table first
RetainedShapes ==
    ShapesOf(ProcFile(tables.mono, 0)) \o
    ShapesOf(ProcFile(tables.dis, Len(tables.mono)))

\* the uses of the source recorded in `log` are the seeding with 1568, then
\* one shuffle per shape of `shapes`, each time of the shape that occurs
\* first among those not shuffled yet, then list 1, then list 2
DrawsInOrder(log, shapes) ==
    /\ Len(log) <= Cardinality({shapes[k] : k \in 1..Len(shapes)}) + 3
    /\ \A n \in 1..Len(log) :
          IF n = 1 THEN log[n] = <<"seed", 1568>>
          ELSE IF \E k \in 1..Len(shapes) :
                      \A m \in 2..(n - 1) : log[m][2] # shapes[k]
          THEN log[n] =
                  <<"shuffle",
                    shapes[CHOOSE k \in 1..Len(shapes) :
                        /\ \A m \in 2..(n - 1) : log[m][2] # shapes[k]
                        /\ \A j \in 1..(k - 1) :
                              \E m \in 2..(n - 1) : log[m][2] = shapes[j]]>>
          ELSE log[n] = <<"shuffle",
                          IF log[n - 1] = <<"shuffle", "list1">>
                          THEN "list2" ELSE "list1">>

\* C7: in every run the pseudo-random source is seeded once, with 1568,
\* before anything is drawn, and is then used for one shuffle per shape group
\* in the order in which the shapes first appear in the retained rows
\* (monosyllable table first), then for the shuffle of list 1, then for that
\* of list 2, and for nothing else; a second run on the same tables writes
\* the same two lists, row for row.
C7_SeededReproducible ==
    /\ DrawsInOrder(rngLog, RetainedShapes)
    /\ spc # "seed" => rngLog # <<>>
    /\ spc \in {"open1", "write1", "open2", "write2", "done"} =>
          rngLog[Len(rngLog)] = <<"shuffle", "list2">>
    /\ (spc = "done" /\ run > 1) => files = prev

C7_Witness ==
    /\ spc = "done"
    /\ run = 2
    /\ Len(rngLog) = 11
    /\ by_shape[1].shape = "CNVC"
    /\ Len(ListRows(1)) = 60
    /\ Len(ListRows(2)) = 60
    /\ files = prev

=============================================================================
